---- MODULE Spec2Model ----
(***************************************************************************)
(* Model of the instrumented crawl-and-mine pipeline:                      *)
(*   site_crawler.py  - crawl orchestrator and stealth crawl session       *)
(*   log_crawler.py   - pattern dictionary compiler, log miner, report     *)
(* Text is modelled as sequences of character codes (ASCII), so that       *)
(* case folding, word boundaries, escaping and sorting are computed.       *)
(***************************************************************************)
EXTENDS Integers, Sequences, FiniteSets, TLC

\* ------------------------------------------------------------------------
\* Bounds of the model
\* ------------------------------------------------------------------------
\* rows of the input CSV
MaxTargets == 3
\* log files (directory entries) inside one site directory
MaxFiles == 2
\* runs of the Log Miner over the same artifact root
MaxRuns == 2
\* characters of a log line (before its newline) in the matcher specification
MaxLineLen == 3

\* rows of INPUT_CSV in the specification of repeated orchestrator runs
MaxRecrawlTargets == 2

\* the small values of max_scrolls in the scroll specification
MaxScrolls == 3

\* the heights a page may report in the scroll specification: 0..MaxHeight
MaxHeight == 2

\* rows of INPUT_CSV in the specification of the whole pipeline
MaxPipeTargets == 2

\* calls the page makes to instrumented entry points in one session
MaxCalls == 3

\* site_crawler.py line 12
MAX_SCROLLS == 100

\* ------------------------------------------------------------------------
\* State
\* ------------------------------------------------------------------------
VARIABLES
    \* site_crawler.py
    rows,       \* the rows of INPUT_CSV, each a sequence of columns
    idx,        \* enumerate(reader, start=1): ordinal of the current row
    url,        \* url = row[1] of the current row
    cpc,        \* position of the orchestrator / session ("off": not running)
    dirs,       \* ordinals whose output directory exists under OUT_DIR
    files,      \* files[k][f]: state of artifact file f of ordinal k
    live,       \* ordinals whose browser instance is open (not quit)
    opened,     \* ordinals for which webdriver.Chrome returned an instance
    errlog,     \* ordinals for which the "error on <url>" line was printed
    crawled,    \* ordinals for which crawl(url, idx) was called, in order
    crun,       \* how many times the orchestrator was started (0: never)
    writes,     \* writes[k][f]: how often artifact file f of ordinal k was written
    \* log_crawler.py
    domains_txt,      \* the domain dictionary file
    functions_txt,    \* the function dictionary file
    root,             \* root_folder: its directory entries
    mpc,              \* position of main() ("off": not running)
    domain_pattern,   \* compiled matcher of the domain dictionary, or None
    function_pattern, \* compiled matcher of the function dictionary, or None
    pending,          \* entries of os.listdir(root_folder) not yet iterated
    results,          \* the results dict, in insertion order
    scanned,          \* per iterated site: matched_domains, matched_functions
    reports,          \* what json.dump wrote, one document per finished run
    \* site_crawler.py : human_scroll on its own
    spc,          \* position in human_scroll ("off": not running)
    max_scrolls,  \* the parameter max_scrolls
    scroll_i,     \* the loop variable i of "for i in range(max_scrolls)"
    scrolled,     \* how many window.scrollBy calls the page received
    position,     \* window.pageYOffset + window.innerHeight, as last measured
    total_height, \* document.body.scrollHeight, as last measured
    \* site_crawler.py : the first three statements of crawl on their own
    npc,          \* position in those statements ("off": not running)
    targets,      \* two (idx, url) arguments of crawl, in the order of the run
    tk,           \* which of the two is being processed
    nurl,         \* url after url = normalize_url(url)
    safe,         \* safe
    out,          \* the directory names computed so far
    \* site_crawler.py : INSTRUMENT_JS in the page and the harvest of crawl
    ipc,          \* position of the harvest ("off": not running)
    wpc,          \* position inside the wrapper function of INSTRUMENT_JS
    call,         \* the call the wrapper is handling: fn and args
    js_buffer,    \* window._jsCalls of the current document
    console,      \* the browser log: the JS_CALL messages console.log wrote
    invoked,      \* the calls forwarded to the original function
    console_logs, \* console_logs, from brow = driver.get_log("browser")
    js_calls      \* js_calls, from execute_script("return window._jsCalls || []")

cvars == <<rows, idx, url, cpc, dirs, files, live, opened, errlog, crawled, crun, writes>>

svars == <<spc, max_scrolls, scroll_i, scrolled, position, total_height>>

nvars == <<npc, targets, tk, nurl, safe, out>>

ivars == <<ipc, wpc, call, js_buffer, console, invoked, console_logs, js_calls>>

mvars == <<domains_txt, functions_txt, root, mpc, domain_pattern,
           function_pattern, pending, results, scanned, reports>>

vars == <<cvars, mvars, svars, nvars, ivars>>

\* The four artifact files, in the order crawl() writes them.
ArtifactFiles == <<"requests.json", "responses.json", "console.json", "js_calls.json">>

ArtifactNames == {ArtifactFiles[i] : i \in 1..Len(ArtifactFiles)}

\* A CSV row is a sequence of columns; the URL is the second column.
RowSet == { <<"1">>, <<"1", "a.com">>, <<"1", "http://b.org/x">> }

NoFiles == [f \in ArtifactNames |-> "absent"]

NoWrites == [f \in ArtifactNames |-> 0]

\* ------------------------------------------------------------------------
\* site_crawler.py : __main__ loop
\* ------------------------------------------------------------------------

\* A statement inside the try block raises: control leaves crawl() and
\* reaches the except clause.
Raise ==
    /\ cpc' = "except"
    /\ UNCHANGED errlog

\* A loop without the except clause: the exception ends the program.
ExceptPropagates ==
    /\ cpc' = "aborted"
    /\ UNCHANGED errlog

\* except Exception as e: print(error); the for loop then takes the next row.
ExceptHandler ==
    /\ errlog' = errlog \cup {idx}
    /\ cpc' = "loop"

ExceptClause ==
    /\ cpc = "except"
    /\ ExceptHandler
    /\ UNCHANGED <<rows, idx, url, dirs, files, live, opened, crawled>>
    /\ UNCHANGED <<crun, writes, mvars, svars, nvars, ivars>>

\* for idx, row in enumerate(reader, start=1): url = row[1]; crawl(url, idx)
\* row[1] is outside the try: a row with fewer than two columns raises
\* IndexError, which ends the program.
NextRow ==
    /\ cpc = "loop"
    /\ IF idx < Len(rows)
       THEN /\ idx' = idx + 1
            /\ IF Len(rows[idx + 1]) < 2
               THEN /\ cpc' = "aborted"
                    /\ UNCHANGED <<url, crawled>>
               ELSE /\ url' = rows[idx + 1][2]
                    /\ crawled' = Append(crawled, idx + 1)
                    /\ cpc' = "mkdir"
       ELSE /\ cpc' = "done"
            /\ UNCHANGED <<idx, url, crawled>>
    /\ UNCHANGED <<rows, dirs, files, live, opened, errlog>>
    /\ UNCHANGED <<crun, writes, mvars, svars, nvars, ivars>>

\* ------------------------------------------------------------------------
\* site_crawler.py : crawl(url, idx)
\* Every call into the file system or the browser driver either returns or
\* raises; an exception leaves crawl() at once and reaches the except clause
\* of the loop.
\* ------------------------------------------------------------------------

\* out.mkdir(exist_ok=True)
Mkdir ==
    /\ cpc = "mkdir"
    /\ \/ /\ dirs' = dirs \cup {idx}
          /\ cpc' = "provision"
          /\ UNCHANGED errlog
       \/ /\ UNCHANGED dirs
          /\ Raise
    /\ UNCHANGED <<rows, idx, url, files, live, opened, crawled>>
    /\ UNCHANGED <<crun, writes, mvars, svars, nvars, ivars>>

\* driver = webdriver.Chrome(service=Service(), options=opts)
Provision ==
    /\ cpc = "provision"
    /\ \/ /\ live' = live \cup {idx}
          /\ opened' = opened \cup {idx}
          /\ cpc' = "instrument"
          /\ UNCHANGED errlog
       \/ /\ UNCHANGED <<live, opened>>
          /\ Raise
    /\ UNCHANGED <<rows, idx, url, dirs, files, crawled>>
    /\ UNCHANGED <<crun, writes, mvars, svars, nvars, ivars>>

\* A driver call that changes nothing the model records: it returns and the
\* session moves on, or it raises.
DriverStep(from, to) ==
    /\ cpc = from
    /\ \/ /\ cpc' = to
          /\ UNCHANGED errlog
       \/ Raise
    /\ UNCHANGED <<rows, idx, url, dirs, files, live, opened, crawled>>
    /\ UNCHANGED <<crun, writes, mvars, svars, nvars, ivars>>

\* the two Page.addScriptToEvaluateOnNewDocument commands
Instrument == DriverStep("instrument", "navigate")

\* a session that harvests right after the page is loaded
NavigateThenHarvest == DriverStep("navigate", "harvest")

\* driver.get(url); time.sleep(settle)
Navigate == DriverStep("navigate", "scroll")

\* human_scroll(driver), by its outcome: it returns or a driver call in it
\* raises
HumanScroll == DriverStep("scroll", "dwell")

\* time.sleep(dwell): cannot fail
Dwell ==
    /\ cpc = "dwell"
    /\ cpc' = "harvest"
    /\ UNCHANGED <<rows, idx, url, dirs, files, live, opened, errlog, crawled>>
    /\ UNCHANGED <<crun, writes, mvars, svars, nvars, ivars>>

\* get_log("performance"), get_log("browser"), the parse loop over perf,
\* console_logs and execute_script("return window._jsCalls || []")
Harvest == DriverStep("harvest", "write1")

WritePc(i) == IF i = 1 THEN "write1" ELSE IF i = 2 THEN "write2"
              ELSE IF i = 3 THEN "write3" ELSE IF i = 4 THEN "write4" ELSE "quit"

\* (out/ArtifactFiles[i]).write_text(json.dumps(...)): on success the file is
\* complete; json.dumps or open may raise before the file is created, and a
\* failing write leaves a truncated file.
WriteFile(i) ==
    /\ cpc = WritePc(i)
    /\ \/ /\ files' = [files EXCEPT ![idx][ArtifactFiles[i]] = "complete"]
          /\ writes' = [writes EXCEPT ![idx][ArtifactFiles[i]] = @ + 1]
          /\ cpc' = WritePc(i + 1)
          /\ UNCHANGED errlog
       \/ /\ UNCHANGED <<files, writes>>
          /\ Raise
       \/ /\ files' = [files EXCEPT ![idx][ArtifactFiles[i]] = "partial"]
          /\ writes' = [writes EXCEPT ![idx][ArtifactFiles[i]] = @ + 1]
          /\ Raise
    /\ UNCHANGED <<rows, idx, url, dirs, live, opened, crawled>>
    /\ UNCHANGED <<crun, mvars, svars, nvars, ivars>>

Seal == \E i \in 1..Len(ArtifactFiles) : WriteFile(i)

\* driver.quit(): the last statement of crawl(), reached only when nothing
\* raised before it.  When quit itself raises, the instance may or may not
\* have been shut down.
Quit ==
    /\ cpc = "quit"
    /\ \/ /\ live' = live \ {idx}
          /\ cpc' = "loop"
          /\ UNCHANGED errlog
       \/ /\ \E l \in {live, live \ {idx}} : live' = l
          /\ Raise
    /\ UNCHANGED <<rows, idx, url, dirs, files, opened, crawled>>
    /\ UNCHANGED <<crun, writes, mvars, svars, nvars, ivars>>

\* the program is started again over the same INPUT_CSV: the process state
\* is new, OUT_DIR and what it holds are as the earlier run left them
CrawlRerun ==
    /\ cpc \in {"done", "aborted"}
    /\ crun < MaxRuns
    /\ crun' = crun + 1
    /\ idx' = 0
    /\ url' = ""
    /\ cpc' = "loop"
    /\ live' = {}
    /\ opened' = {}
    /\ errlog' = {}
    /\ crawled' = <<>>
    /\ UNCHANGED <<rows, dirs, files, writes>>
    /\ UNCHANGED <<mvars, svars, nvars, ivars>>

\* ------------------------------------------------------------------------
\* Text: a string is a sequence of ASCII codes
\*   9 tab  10 newline  32 space  35 '#'  46 '.'  65 'A'  92 '\'  97 'a'
\*   98 'b'  102 'f'  124 '|'
\* ------------------------------------------------------------------------

\* \w of the re module: letters, digits and the underscore
IsWordChar(c) == c \in (48..57) \cup (65..90) \cup {95} \cup (97..122)

\* the case folding of re.IGNORECASE and of str.lower()
LowerChar(c) == IF c \in 65..90 THEN c + 32 ELSE c

Lower(s) == [i \in 1..Len(s) |-> LowerChar(s[i])]

\* the characters str.strip() removes
IsSpace(c) == c \in {9, 10, 11, 12, 13, 32}

RECURSIVE LStrip(_)
LStrip(s) == IF s # <<>> /\ IsSpace(Head(s)) THEN LStrip(Tail(s)) ELSE s

RECURSIVE RStrip(_)
RStrip(s) == IF s # <<>> /\ IsSpace(s[Len(s)])
             THEN RStrip(SubSeq(s, 1, Len(s) - 1)) ELSE s

Strip(s) == RStrip(LStrip(s))

\* the characters re.escape() puts a backslash before:
\*   ( ) [ ] { } ? * + - | ^ $ \ . & ~ # space \t \n \r \v \f
SpecialChars == {40, 41, 91, 93, 123, 125, 63, 42, 43, 45, 124, 94, 36, 92,
                 46, 38, 126, 35, 32, 9, 10, 13, 11, 12}

RECURSIVE Escape(_)
Escape(s) ==
    IF s = <<>> THEN <<>>
    ELSE (IF Head(s) \in SpecialChars THEN <<92, Head(s)>> ELSE <<Head(s)>>)
         \o Escape(Tail(s))

\* s.startswith(p) / s.endswith(p)
StartsWith(s, p) == Len(s) >= Len(p) /\ SubSeq(s, 1, Len(p)) = p

EndsWith(s, p) == Len(s) >= Len(p) /\ SubSeq(s, Len(s) - Len(p) + 1, Len(s)) = p

\* Python's order on str: by code point, a proper prefix first
RECURSIVE StrLess(_, _)
StrLess(a, b) ==
    IF b = <<>> THEN FALSE
    ELSE IF a = <<>> THEN TRUE
    ELSE IF Head(a) # Head(b) THEN Head(a) < Head(b)
    ELSE StrLess(Tail(a), Tail(b))

\* ------------------------------------------------------------------------
\* log_crawler.py : load_list, compile_pattern
\* ------------------------------------------------------------------------

\* load_list over the lines of an opened dictionary file: strip, drop blank
\* and '#' lines, re.escape the rest
\* a load_list that leaves out the entries that hold a special character
RECURSIVE load_list_plain_only(_)
load_list_plain_only(lines) ==
    IF lines = <<>> THEN <<>>
    ELSE LET line == Strip(Head(lines)) IN
         (IF line = <<>> \/ StartsWith(line, <<35>>) \/ Escape(line) # line
          THEN <<>> ELSE <<line>>)
         \o load_list_plain_only(Tail(lines))

\* a load_list that strips the lines but keeps blank and '#' lines
RECURSIVE load_list_unfiltered(_)
load_list_unfiltered(lines) ==
    IF lines = <<>> THEN <<>>
    ELSE <<Escape(Strip(Head(lines)))>> \o load_list_unfiltered(Tail(lines))

RECURSIVE load_list(_)
load_list(lines) ==
    IF lines = <<>> THEN <<>>
    ELSE LET line == Strip(Head(lines)) IN
         IF line = <<>> \/ StartsWith(line, <<35>>)
         THEN load_list(Tail(lines))
         ELSE <<Escape(line)>> \o load_list(Tail(lines))

\* "|".join(escaped_list)
RECURSIVE Join(_)
Join(list) ==
    IF list = <<>> THEN <<>>
    ELSE IF Len(list) = 1 THEN Head(list)
    ELSE Head(list) \o <<124>> \o Join(Tail(list))

\* rf"\b({alternation})\b"
PatternText(escaped_list) == <<92, 98, 40>> \o Join(escaped_list) \o <<41, 92, 98>>

\* The alternatives of an alternation of escaped literals, as re parses it:
\* a backslash makes the next character literal, an unescaped '|' separates.
RECURSIVE ParseAlternation(_, _)
ParseAlternation(s, cur) ==
    IF s = <<>> THEN <<cur>>
    ELSE IF Head(s) = 92 /\ Len(s) >= 2
         THEN ParseAlternation(SubSeq(s, 3, Len(s)), Append(cur, s[2]))
    ELSE IF Head(s) = 124
         THEN <<cur>> \o ParseAlternation(Tail(s), <<>>)
    ELSE ParseAlternation(Tail(s), Append(cur, Head(s)))

\* re.compile(pattern, flags=re.IGNORECASE) of a pattern \b( ... )\b :
\* the matcher is its ordered list of literal alternatives
ReCompile(pattern) ==
    [none |-> FALSE,
     alts |-> ParseAlternation(SubSeq(pattern, 4, Len(pattern) - 3), <<>>)]

None == [none |-> TRUE, alts |-> <<>>]

compile_pattern(escaped_list) ==
    IF escaped_list = <<>> THEN None ELSE ReCompile(PatternText(escaped_list))

\* ------------------------------------------------------------------------
\* The matcher: \b(alt1|alt2|...)\b, case-insensitive, as re runs it
\* ------------------------------------------------------------------------

\* \b at position p (between line[p-1] and line[p])
WordBoundary(line, p) ==
    LET before == p > 1 /\ IsWordChar(line[p - 1])
        after  == p <= Len(line) /\ IsWordChar(line[p])
    IN before # after

\* alternative alt matches at p and \b holds after it
AltMatches(alt, line, p) ==
    /\ p + Len(alt) - 1 <= Len(line)
    /\ \A j \in 1..Len(alt) : LowerChar(line[p + j - 1]) = LowerChar(alt[j])
    /\ WordBoundary(line, p + Len(alt))

\* Length of the match that starts at p, 0 when there is none: the
\* alternatives are tried in order and the first that lets the whole pattern
\* match wins.
MatchLen(pattern, line, p) ==
    IF ~WordBoundary(line, p) THEN 0
    ELSE LET ok == {i \in 1..Len(pattern.alts) : AltMatches(pattern.alts[i], line, p)}
         IN IF ok = {} THEN 0
            ELSE Len(pattern.alts[CHOOSE i \in ok : \A j \in ok : i <= j])

\* the alternative of the pattern that matched at pos, in the dictionary's
\* spelling
MatchedEntry(pattern, line, pos, n) ==
    pattern.alts[CHOOSE i \in 1..Len(pattern.alts) :
                    /\ AltMatches(pattern.alts[i], line, pos)
                    /\ \A j \in 1..(i - 1) : ~AltMatches(pattern.alts[j], line, pos)]

\* dm.group(1) of the match of length n at pos: the text of the line
Group1(pattern, line, pos, n) == SubSeq(line, pos, pos + n - 1)

\* pattern.finditer(line): the non-overlapping matches from left to right,
\* each given as group(1), the matched text of the line
RECURSIVE FindIter(_, _, _)
FindIter(pattern, line, pos) ==
    IF pos > Len(line) THEN <<>>
    ELSE LET n == MatchLen(pattern, line, pos) IN
         IF n > 0
         THEN <<Group1(pattern, line, pos, n)>> \o FindIter(pattern, line, pos + n)
         ELSE FindIter(pattern, line, pos + 1)

SeqToSet(s) == {s[i] : i \in 1..Len(s)}

\* ------------------------------------------------------------------------
\* log_crawler.py : scan_log_file, find_log_files
\* A directory entry is a record
\*   name    its name
\*   kind    "file" or "dir"
\*   lines   the lines of a file, each ending in a newline
\*   opens   whether open() succeeds
\*   good    how many lines the file yields before reading raises
\*           (Len(lines) when reading never raises)
\*   entries the entries of a directory
\* ------------------------------------------------------------------------

\* the accumulator of one site's scan: the two sets main creates and hands to
\* scan_log_file, and w, the files for which a warning line was printed
NoMatches == [d |-> {}, f |-> {}, w |-> <<>>]

\* the body of "for raw_line in f" over the lines read
RECURSIVE ScanLines(_, _, _, _)
ScanLines(lines, dp, fp, acc) ==
    IF lines = <<>> THEN acc
    ELSE LET raw_line == Head(lines)
             d == IF dp.none THEN acc.d
                  ELSE acc.d \cup SeqToSet(FindIter(dp, raw_line, 1))
             f == IF fp.none THEN acc.f
                  ELSE acc.f \cup SeqToSet(FindIter(fp, raw_line, 1))
         IN ScanLines(Tail(lines), dp, fp, [acc EXCEPT !.d = d, !.f = f])

\* the except clause: print(f"  [WARNING] Could not read {path!r}: {e}")
Warning(acc, file) == [acc EXCEPT !.w = Append(@, file.name)]

\* a scan_log_file whose failure empties the two sets of the site
scan_log_file_discards(file, dp, fp, acc) ==
    IF ~file.opens \/ file.good < Len(file.lines)
    THEN [d |-> {}, f |-> {}, w |-> Append(acc.w, file.name)]
    ELSE ScanLines(file.lines, dp, fp, acc)

\* a scan_log_file that takes back the matches of a file whose reading fails
scan_log_file_rollback(file, dp, fp, acc) ==
    IF ~file.opens \/ file.good < Len(file.lines)
    THEN [acc EXCEPT !.w = Append(@, file.name)]
    ELSE ScanLines(file.lines, dp, fp, acc)

\* scan_log_file: the sets are updated in place line by line; an exception
\* (open fails, reading fails part-way) is caught and only prints a warning
scan_log_file(file, dp, fp, acc) ==
    IF ~file.opens THEN Warning(acc, file)
    ELSE LET m == ScanLines(SubSeq(file.lines, 1, file.good), dp, fp, acc)
         IN IF file.good < Len(file.lines) THEN Warning(m, file) ELSE m

\* extensions=('.log',)
LogExtension == <<46, 108, 111, 103>>

\* a find_log_files without the test of the extension
find_all_files(site) == {e \in site.entries : e.kind = "file"}

\* find_log_files: the regular files directly inside root_dir whose
\* lower-cased name ends with the extension
find_log_files(site) ==
    {e \in site.entries : e.kind = "file" /\ EndsWith(Lower(e.name), LogExtension)}

\* the orders in which os.listdir may return the members of S
Listings(S) ==
    {o \in [1..Cardinality(S) -> S] : \A i, j \in 1..Cardinality(S) : o[i] = o[j] => i = j}

\* the loop "for log_file in find_log_files(site_dir)" of main
RECURSIVE ScanFiles(_, _, _, _)
ScanFiles(order, dp, fp, acc) ==
    IF order = <<>> THEN acc
    ELSE ScanFiles(Tail(order), dp, fp, scan_log_file(Head(order), dp, fp, acc))

\* ------------------------------------------------------------------------
\* log_crawler.py : main
\* ------------------------------------------------------------------------

\* a sort with the comparison reversed
RECURSIVE Descending(_)
Descending(S) ==
    IF S = {} THEN <<>>
    ELSE LET m == CHOOSE x \in S : \A y \in S \ {x} : StrLess(y, x)
         IN <<m>> \o Descending(S \ {m})

\* sorted() of a set: ascending in Python's order on str
RECURSIVE sorted(_)
sorted(S) ==
    IF S = {} THEN <<>>
    ELSE LET m == CHOOSE x \in S : \A y \in S \ {x} : StrLess(x, y)
         IN <<m>> \o sorted(S \ {m})

\* an emission test with "and" in place of "or"
EmitsWhenBoth(md, mf) == md # {} /\ mf # {}

\* "if matched_domains or matched_functions"
Emits(md, mf) == md # {} \/ mf # {}

\* {"domains": sorted(matched_domains), "functions": sorted(matched_functions)}
ReportEntry(md, mf) ==
    [k \in {"domains", "functions"} |-> IF k = "domains" THEN sorted(md) ELSE sorted(mf)]

\* results[key] = value on a dict that keeps insertion order
DictSet(dict, key, value) ==
    IF \E i \in 1..Len(dict) : dict[i].key = key
    THEN [i \in 1..Len(dict) |->
            IF dict[i].key = key THEN [key |-> key, value |-> value] ELSE dict[i]]
    ELSE Append(dict, [key |-> key, value |-> value])

DictKeys(dict) == {dict[i].key : i \in 1..Len(dict)}

DictGet(dict, key) == dict[CHOOSE i \in 1..Len(dict) : dict[i].key = key].value

\* json.dump(results, out_f, indent=2): the text written, keys in the dict's
\* order.  34 '"'  44 ','  58 ':'  91 '['  93 ']'  123 '{'  125 '}'
RECURSIVE JsonString(_)
JsonString(s) ==
    IF s = <<>> THEN <<>>
    ELSE (IF Head(s) \in {34, 92} THEN <<92, Head(s)>> ELSE <<Head(s)>>)
         \o JsonString(Tail(s))

Quoted(s) == <<34>> \o JsonString(s) \o <<34>>

Indent(n) == [i \in 1..n |-> 32]

RECURSIVE JsonItems(_, _)
JsonItems(list, depth) ==
    IF list = <<>> THEN <<>>
    ELSE <<10>> \o Indent(depth) \o Quoted(Head(list))
         \o (IF Len(list) > 1 THEN <<44>> ELSE <<>>) \o JsonItems(Tail(list), depth)

JsonList(list, depth) ==
    IF list = <<>> THEN <<91, 93>>
    ELSE <<91>> \o JsonItems(list, depth + 2) \o <<10>> \o Indent(depth) \o <<93>>

\* "domains" and "functions" as text
KeyDomains == <<100, 111, 109, 97, 105, 110, 115>>

KeyFunctions == <<102, 117, 110, 99, 116, 105, 111, 110, 115>>

JsonEntry(value, depth) ==
    <<123, 10>> \o Indent(depth + 2) \o Quoted(KeyDomains) \o <<58, 32>>
    \o JsonList(value["domains"], depth + 2) \o <<44, 10>>
    \o Indent(depth + 2) \o Quoted(KeyFunctions) \o <<58, 32>>
    \o JsonList(value["functions"], depth + 2) \o <<10>> \o Indent(depth) \o <<125>>

RECURSIVE JsonMembers(_)
JsonMembers(dict) ==
    IF dict = <<>> THEN <<>>
    ELSE <<10>> \o Indent(2) \o Quoted(Head(dict).key) \o <<58, 32>>
         \o JsonEntry(Head(dict).value, 2)
         \o (IF Len(dict) > 1 THEN <<44>> ELSE <<>>) \o JsonMembers(Tail(dict))

json_dump(dict) ==
    IF dict = <<>> THEN <<123, 125>>
    ELSE <<123>> \o JsonMembers(dict) \o <<10, 125>>

\* load_list returns: open() finds the file and every line decodes
\* (encoding='utf-8' with the default errors='strict')
Loads(dict_file) == dict_file.exists /\ dict_file.decodable

\* main, lines 66-77: load and compile both dictionaries.  open() of a
\* missing dictionary file, or reading one that is not UTF-8, raises and
\* ends the program.
LoadAndCompile ==
    /\ mpc = "load"
    /\ IF ~Loads(domains_txt) \/ ~Loads(functions_txt)
       THEN /\ mpc' = "crashed"
            /\ UNCHANGED <<domain_pattern, function_pattern, pending, results>>
       ELSE LET domains_list   == load_list(domains_txt.lines)
                functions_list == load_list(functions_txt.lines)
                dp == IF domains_list # <<>> THEN compile_pattern(domains_list) ELSE None
                fp == IF functions_list # <<>> THEN compile_pattern(functions_list) ELSE None
            IN /\ domain_pattern' = dp
               /\ function_pattern' = fp
               /\ IF (domains_list # <<>> /\ dp.none) \/ (functions_list # <<>> /\ fp.none)
                  THEN /\ mpc' = "returned"
                       /\ UNCHANGED <<pending, results>>
                  ELSE /\ results' = <<>>
                       /\ pending' = root
                       /\ mpc' = "sites"
    /\ UNCHANGED <<domains_txt, functions_txt, root, scanned, reports>>
    /\ UNCHANGED <<cvars, svars, nvars, ivars>>

\* main, lines 80-83: an entry of root_folder that is not a directory
SkipEntry ==
    /\ mpc = "sites"
    /\ \E entry \in pending :
         /\ entry.kind # "dir"
         /\ pending' = pending \ {entry}
    /\ UNCHANGED <<domains_txt, functions_txt, root, mpc, domain_pattern,
                   function_pattern, results, scanned, reports>>
    /\ UNCHANGED <<cvars, svars, nvars, ivars>>

\* an iteration that goes on with the sets of the sites scanned before
ScanSiteSharedSets ==
    /\ mpc = "sites"
    /\ \E entry \in pending :
         /\ entry.kind = "dir"
         /\ \E order \in Listings(find_log_files(entry)) :
              LET shared == [d |-> UNION {scanned[n].d : n \in DOMAIN scanned},
                             f |-> UNION {scanned[n].f : n \in DOMAIN scanned},
                             w |-> <<>>]
                  m == ScanFiles(order, domain_pattern, function_pattern, shared)
              IN /\ scanned' = [n \in DOMAIN scanned \cup {entry.name} |->
                                  IF n = entry.name THEN m ELSE scanned[n]]
                 /\ results' = IF Emits(m.d, m.f)
                               THEN DictSet(results, entry.name, ReportEntry(m.d, m.f))
                               ELSE results
         /\ pending' = pending \ {entry}
    /\ UNCHANGED <<domains_txt, functions_txt, root, mpc, domain_pattern,
                   function_pattern, reports>>
    /\ UNCHANGED <<cvars, svars, nvars, ivars>>

\* main, lines 80-105: one iteration of the loop over os.listdir(root_folder)
\* for a directory: fresh sets, every log file scanned, the entry emitted
ScanSite ==
    /\ mpc = "sites"
    /\ \E entry \in pending :
         /\ entry.kind = "dir"
         /\ \E order \in Listings(find_log_files(entry)) :
              LET m == ScanFiles(order, domain_pattern, function_pattern, NoMatches)
              IN /\ scanned' = [n \in DOMAIN scanned \cup {entry.name} |->
                                  IF n = entry.name THEN m ELSE scanned[n]]
                 /\ results' = IF Emits(m.d, m.f)
                               THEN DictSet(results, entry.name, ReportEntry(m.d, m.f))
                               ELSE results
         /\ pending' = pending \ {entry}
    /\ UNCHANGED <<domains_txt, functions_txt, root, mpc, domain_pattern,
                   function_pattern, reports>>
    /\ UNCHANGED <<cvars, svars, nvars, ivars>>

\* main, lines 107-111: write the report
WriteReport ==
    /\ mpc = "sites"
    /\ pending = {}
    /\ reports' = Append(reports, json_dump(results))
    /\ mpc' = "done"
    /\ UNCHANGED <<domains_txt, functions_txt, root, domain_pattern,
                   function_pattern, pending, results, scanned>>
    /\ UNCHANGED <<cvars, svars, nvars, ivars>>

\* the program is run again on the same root and dictionaries
Rerun ==
    /\ mpc = "done"
    /\ Len(reports) < MaxRuns
    /\ mpc' = "load"
    /\ domain_pattern' = None
    /\ function_pattern' = None
    /\ pending' = {}
    /\ results' = <<>>
    /\ scanned' = << >>
    /\ UNCHANGED <<domains_txt, functions_txt, root, reports>>
    /\ UNCHANGED <<cvars, svars, nvars, ivars>>

\* ------------------------------------------------------------------------
\* Inputs of the Log Miner
\* ------------------------------------------------------------------------

File(name, lines, opens, good) ==
    [name |-> name, kind |-> "file", lines |-> lines, opens |-> opens,
     good |-> good, entries |-> {}]

Dir(name, entries) ==
    [name |-> name, kind |-> "dir", lines |-> <<>>, opens |-> FALSE,
     good |-> 0, entries |-> entries]

\* What the site directories may hold:
\*   a.log   "x a.b\n" "f f\n"       readable
\*   b.LOG   "A.B\n"                 readable, upper-case extension
\*   c.log   "b\n" "f\n"             reading raises after the first line
\*   d.log   "a.b\n"                 cannot be opened
\*   e.txt   "a.b f\n"               not a log file
\*   n.log/  a directory holding z.log "a.b f\n"
FileA == File(<<97, 46, 108, 111, 103>>,
              << <<120, 32, 97, 46, 98, 10>>, <<102, 32, 102, 10>> >>, TRUE, 2)

FileB == File(<<98, 46, 76, 79, 71>>, << <<65, 46, 66, 10>> >>, TRUE, 1)

FileC == File(<<99, 46, 108, 111, 103>>, << <<98, 10>>, <<102, 10>> >>, TRUE, 1)

FileD == File(<<100, 46, 108, 111, 103>>, << <<97, 46, 98, 10>> >>, FALSE, 0)

FileE == File(<<101, 46, 116, 120, 116>>, << <<97, 46, 98, 32, 102, 10>> >>, TRUE, 1)

DirN == Dir(<<110, 46, 108, 111, 103>>,
            { File(<<122, 46, 108, 111, 103>>, << <<97, 46, 98, 32, 102, 10>> >>, TRUE, 1) })

\* site s1 holds any of them, site s2 any of a.log and c.log
FileSet(site) ==
    IF site = <<115, 49>> THEN {FileA, FileB, FileC, FileD, FileE, DirN}
    ELSE {FileA, FileC}

\* a regular file directly in the root: r.log "a.b f\n"
RootFile == File(<<114, 46, 108, 111, 103>>, << <<97, 46, 98, 32, 102, 10>> >>, TRUE, 1)

\* a dictionary file: whether open() finds it, whether its bytes decode as
\* UTF-8, and its lines
DictFile(lines) == [exists |-> TRUE, decodable |-> TRUE, lines |-> lines]

MissingFile == [exists |-> FALSE, decodable |-> TRUE, lines |-> <<>>]

\* a dictionary file holding a byte sequence that is not UTF-8
CorruptFile(lines) == [exists |-> TRUE, decodable |-> FALSE, lines |-> lines]

\* domains.txt: missing | not UTF-8 | "# c" "" | " a.b " "b"
DomainDicts ==
    { MissingFile,
      CorruptFile(<< <<97, 46, 98>> >>),
      DictFile(<< <<35, 32, 99>>, <<>> >>),
      DictFile(<< <<32, 97, 46, 98, 32>>, <<98>> >>) }

\* functions.txt: missing | empty | "f"
FunctionDicts ==
    { MissingFile, DictFile(<<>>), DictFile(<< <<102>> >>) }

CrawlIdle ==
    /\ rows = <<>>
    /\ idx = 0
    /\ url = ""
    /\ cpc = "off"
    /\ dirs = {}
    /\ files = [k \in 1..MaxTargets |-> NoFiles]
    /\ live = {}
    /\ opened = {}
    /\ errlog = {}
    /\ crawled = <<>>
    /\ crun = 0
    /\ writes = [k \in 1..MaxTargets |-> NoWrites]

ScrollIdle ==
    /\ spc = "off"
    /\ max_scrolls = 0
    /\ scroll_i = 0
    /\ scrolled = 0
    /\ position = 0
    /\ total_height = 0

NameIdle ==
    /\ npc = "off"
    /\ targets = <<>>
    /\ tk = 0
    /\ nurl = <<>>
    /\ safe = <<>>
    /\ out = <<>>

NoCall == [fn |-> "", args |-> 0]

InstrumentIdle ==
    /\ ipc = "off"
    /\ wpc = "idle"
    /\ call = NoCall
    /\ js_buffer = <<>>
    /\ console = <<>>
    /\ invoked = <<>>
    /\ console_logs = <<>>
    /\ js_calls = <<>>

MineStart ==
    /\ mpc = "load"
    /\ domain_pattern = None
    /\ function_pattern = None
    /\ pending = {}
    /\ results = <<>>
    /\ scanned = << >>
    /\ reports = <<>>

MineIdle ==
    /\ domains_txt = MissingFile
    /\ functions_txt = MissingFile
    /\ root = {}
    /\ mpc = "off"
    /\ domain_pattern = None
    /\ function_pattern = None
    /\ pending = {}
    /\ results = <<>>
    /\ scanned = << >>
    /\ reports = <<>>

\* the state before the first row of INPUT_CSV is read
CrawlInit ==
    /\ rows \in UNION { [1..n -> RowSet] : n \in 0..MaxTargets }
    /\ idx = 0
    /\ url = ""
    /\ cpc = "loop"
    /\ dirs = {}
    /\ files = [k \in 1..MaxTargets |-> NoFiles]
    /\ live = {}
    /\ opened = {}
    /\ errlog = {}
    /\ crawled = <<>>
    /\ crun = 1
    /\ writes = [k \in 1..MaxTargets |-> NoWrites]
    /\ MineIdle
    /\ ScrollIdle
    /\ NameIdle
    /\ InstrumentIdle

\* the state before the first row is read, for repeated runs
RecrawlInit ==
    /\ rows \in UNION { [1..n -> RowSet] : n \in 0..MaxRecrawlTargets }
    /\ idx = 0
    /\ url = ""
    /\ cpc = "loop"
    /\ dirs = {}
    /\ files = [k \in 1..MaxTargets |-> NoFiles]
    /\ live = {}
    /\ opened = {}
    /\ errlog = {}
    /\ crawled = <<>>
    /\ crun = 1
    /\ writes = [k \in 1..MaxTargets |-> NoWrites]
    /\ MineIdle
    /\ ScrollIdle
    /\ NameIdle
    /\ InstrumentIdle

MineInit ==
    /\ domains_txt \in DomainDicts
    /\ functions_txt \in FunctionDicts
    /\ \E s1 \in {S \in SUBSET FileSet(<<115, 49>>) : Cardinality(S) <= MaxFiles} :
       \E s2 \in {S \in SUBSET FileSet(<<115, 50>>) : Cardinality(S) <= MaxFiles} :
         root = {RootFile, Dir(<<115, 49>>, s1), Dir(<<115, 50>>, s2)}
    /\ MineStart
    /\ CrawlIdle
    /\ ScrollIdle
    /\ NameIdle
    /\ InstrumentIdle

\* ------------------------------------------------------------------------
\* Inputs of the matcher specification: one site, one log file, one line
\* ------------------------------------------------------------------------

\* space . A a b
Alphabet == {32, 46, 65, 97, 98}

\* the lines a text file can yield: a body without newline (the last line of
\* a file that does not end in one) or a body followed by a newline
LineSet ==
    LET bodies == UNION { [1..n -> Alphabet] : n \in 0..MaxLineLen }
    IN (bodies \ {<<>>}) \cup {Append(b, 10) : b \in bodies}

\* dictionaries: "a.b" | "b" | ".b" | "a." | "a" "a.b" | "a.b" "a" |
\*               " A.b " "# b" | "ab" "a" | "a b"
MatchDicts ==
    { DictFile(<< <<97, 46, 98>> >>),
      DictFile(<< <<98>> >>),
      DictFile(<< <<46, 98>> >>),
      DictFile(<< <<97, 46>> >>),
      DictFile(<< <<97>>, <<97, 46, 98>> >>),
      DictFile(<< <<97, 46, 98>>, <<97>> >>),
      DictFile(<< <<32, 65, 46, 98, 32>>, <<35, 32, 98>> >>),
      DictFile(<< <<97, 98>>, <<97>> >>),
      DictFile(<< <<97, 32, 98>> >>) }

MatchInit ==
    /\ domains_txt \in MatchDicts
    /\ functions_txt = DictFile(<<>>)
    /\ \E line \in LineSet :
         root = { RootFile,
                  Dir(<<115, 49>>, { File(<<97, 46, 108, 111, 103>>, <<line>>, TRUE, 1) }) }
    /\ MineStart
    /\ CrawlIdle
    /\ ScrollIdle
    /\ NameIdle
    /\ InstrumentIdle

\* ------------------------------------------------------------------------
\* site_crawler.py : human_scroll(driver, max_scrolls), statement by statement
\* What the page measures after a scroll is up to the page: any two heights.
\* ------------------------------------------------------------------------

Heights == 0..MaxHeight

\* a stop test that wants the viewport strictly past the end
PastBottom(pos, total) == pos > total

\* "if position >= total_height"
ReachedBottom(pos, total) == pos >= total

\* a driver call inside human_scroll raises: the function is left at once
ScrollRaise ==
    /\ spc' = "raised"
    /\ UNCHANGED <<max_scrolls, scroll_i, scrolled, position, total_height>>

\* for i in range(max_scrolls): the next i, or the end of the range
ForRange ==
    /\ spc = "for"
    /\ spc' = IF scroll_i < max_scrolls THEN "scroll" ELSE "returned"
    /\ UNCHANGED <<max_scrolls, scroll_i, scrolled, position, total_height>>
    /\ UNCHANGED <<cvars, mvars, nvars, ivars>>

\* driver.execute_script("window.scrollBy(0, arguments[0]);", delta); sleep
ScrollBy ==
    /\ spc = "scroll"
    /\ \/ /\ scrolled' = scrolled + 1
          /\ spc' = "measure"
          /\ UNCHANGED <<max_scrolls, scroll_i, position, total_height>>
       \/ ScrollRaise
    /\ UNCHANGED <<cvars, mvars, nvars, ivars>>

\* position = pageYOffset + innerHeight; total_height = body.scrollHeight
Measure ==
    /\ spc = "measure"
    /\ \/ /\ position' \in Heights
          /\ total_height' \in Heights
          /\ spc' = "test"
          /\ UNCHANGED <<max_scrolls, scroll_i, scrolled>>
       \/ ScrollRaise
    /\ UNCHANGED <<cvars, mvars, nvars, ivars>>

\* if position >= total_height: break
StopTest ==
    /\ spc = "test"
    /\ IF ReachedBottom(position, total_height)
       THEN /\ spc' = "returned"
            /\ UNCHANGED scroll_i
       ELSE /\ spc' = "for"
            /\ scroll_i' = scroll_i + 1
    /\ UNCHANGED <<max_scrolls, scrolled, position, total_height>>
    /\ UNCHANGED <<cvars, mvars, nvars, ivars>>

\* a call human_scroll(driver, max_scrolls); crawl passes the default
ScrollInit ==
    /\ spc = "for"
    /\ max_scrolls \in (0..MaxScrolls) \cup {MAX_SCROLLS}
    /\ scroll_i = 0
    /\ scrolled = 0
    /\ position = 0
    /\ total_height = 0
    /\ CrawlIdle
    /\ MineIdle
    /\ NameIdle
    /\ InstrumentIdle

\* ------------------------------------------------------------------------
\* site_crawler.py : normalize_url and the first statements of crawl(url, idx)
\*   47 '/'  48 '0'  58 ':'  95 '_'  104 'h'  112 'p'  115 's'  116 't'
\* ------------------------------------------------------------------------

\* "http://"
Http == <<104, 116, 116, 112, 58, 47, 47>>

\* "https://"
Https == <<104, 116, 116, 112, 115, 58, 47, 47>>

normalize_url(u) ==
    IF ~(StartsWith(u, Http) \/ StartsWith(u, Https)) THEN Https \o u ELSE u

\* str.replace(old, new): the occurrences of old, left to right, not
\* overlapping
RECURSIVE Replace(_, _, _)
Replace(s, old, new) ==
    IF Len(s) < Len(old) THEN s
    ELSE IF StartsWith(s, old)
         THEN new \o Replace(SubSeq(s, Len(old) + 1, Len(s)), old, new)
    ELSE <<Head(s)>> \o Replace(Tail(s), old, new)

\* url.replace("://", "_").replace("/", "_")
SafeName(u) == Replace(Replace(u, <<58, 47, 47>>, <<95>>), <<47>>, <<95>>)

\* the decimal digits of n >= 0
RECURSIVE Digits(_)
Digits(n) == IF n < 10 THEN <<48 + n>> ELSE Digits(n \div 10) \o <<48 + (n % 10)>>

RECURSIVE ZeroPad(_, _)
ZeroPad(s, width) == IF Len(s) >= width THEN s ELSE ZeroPad(<<48>> \o s, width)

\* a format that keeps the last four digits only
FormatLastFour(n) == ZeroPad(Digits(n % 10000), 4)

\* f"{idx:04d}"
Format04d(n) == ZeroPad(Digits(n), 4)

\* f"{idx:04d}_{safe}", the name of the directory under OUT_DIR
DirName(n, safe_url) == Format04d(n) \o <<95>> \o safe_url

\* url = normalize_url(url)
Normalize ==
    /\ npc = "normalize"
    /\ nurl' = normalize_url(targets[tk].u)
    /\ npc' = "safe"
    /\ UNCHANGED <<targets, tk, safe, out>>
    /\ UNCHANGED <<cvars, mvars, svars, ivars>>

\* safe = url.replace("://","_").replace("/","_")
MakeSafe ==
    /\ npc = "safe"
    /\ safe' = SafeName(nurl)
    /\ npc' = "out"
    /\ UNCHANGED <<targets, tk, nurl, out>>
    /\ UNCHANGED <<cvars, mvars, svars, ivars>>

\* out = OUT_DIR / f"{idx:04d}_{safe}"; then the next call of crawl
MakeOut ==
    /\ npc = "out"
    /\ out' = Append(out, DirName(targets[tk].idx, safe))
    /\ IF tk < Len(targets)
       THEN /\ tk' = tk + 1
            /\ npc' = "normalize"
       ELSE /\ npc' = "end"
            /\ UNCHANGED tk
    /\ UNCHANGED <<targets, nurl, safe>>
    /\ UNCHANGED <<cvars, mvars, svars, ivars>>

\* ordinals of rows: small ones, and ones around the width of four digits
IdxSet == {1, 2, 9999, 10000, 10001}

\* row[1]: "a/b" | "a_b" | "https://a_b" | "http://a/b" | "HTTP://a" |
\*         "ftp://a" | "a" | ""
UrlSet ==
    { <<97, 47, 98>>,
      <<97, 95, 98>>,
      Https \o <<97, 95, 98>>,
      Http \o <<97, 47, 98>>,
      <<72, 84, 84, 80, 58, 47, 47, 97>>,
      <<102, 116, 112, 58, 47, 47, 97>>,
      <<97>>,
      <<>> }

\* two calls crawl(url, idx) of one run: the ordinals grow with the rows
NameInit ==
    /\ targets \in {t \in [1..2 -> [idx : IdxSet, u : UrlSet]] : t[1].idx < t[2].idx}
    /\ tk = 1
    /\ npc = "normalize"
    /\ nurl = <<>>
    /\ safe = <<>>
    /\ out = <<>>
    /\ CrawlIdle
    /\ MineIdle
    /\ ScrollIdle
    /\ InstrumentIdle

\* ------------------------------------------------------------------------
\* The pipeline: site_crawler.py fills OUT_DIR, then log_crawler.py is run
\* with OUT_DIR as its root_folder
\* ------------------------------------------------------------------------

\* the names of the four artifact files, as text
FileText ==
    [f \in ArtifactNames |->
        IF f = "requests.json"
        THEN <<114, 101, 113, 117, 101, 115, 116, 115, 46, 106, 115, 111, 110>>
        ELSE IF f = "responses.json"
        THEN <<114, 101, 115, 112, 111, 110, 115, 101, 115, 46, 106, 115, 111, 110>>
        ELSE IF f = "console.json"
        THEN <<99, 111, 110, 115, 111, 108, 101, 46, 106, 115, 111, 110>>
        ELSE <<106, 115, 95, 99, 97, 108, 108, 115, 46, 106, 115, 111, 110>>]

\* the line json.dumps(requests, indent=2) holds for a request to u:
\*     "url": "<u>",
UrlLine(u) ==
    <<32, 32, 32, 32, 34, 117, 114, 108, 34, 58, 32, 34>> \o u \o <<34, 44, 10>>

\* what a written artifact file holds: requests.json and responses.json name
\* the URL that driver.get loaded, the other two are "[]"; a file whose
\* write failed is truncated
ArtifactLines(k, f) ==
    IF files[k][f] # "complete" THEN <<>>
    ELSE IF f \in {"requests.json", "responses.json"}
         THEN << UrlLine(normalize_url(rows[k][2])) >>
    ELSE << <<91, 93, 10>> >>

\* the directory crawl(url, idx) made for row k, with the files written to it
BundleDir(k) ==
    Dir(DirName(k, SafeName(normalize_url(rows[k][2]))),
        { File(FileText[f], ArtifactLines(k, f), TRUE, Len(ArtifactLines(k, f))) :
            f \in {g \in ArtifactNames : files[k][g] # "absent"} })

\* what OUT_DIR holds
OutDir == {BundleDir(k) : k \in dirs}

\* the domain dictionary of the pipeline: "a.b"
PipeDomain == <<97, 46, 98>>

\* python log_crawler.py domains.txt functions.txt logs_selenium_stealth,
\* once the orchestrator has ended
MineOutDir ==
    /\ cpc \in {"done", "aborted"}
    /\ mpc = "off"
    /\ domains_txt' = DictFile(<<PipeDomain>>)
    /\ functions_txt' = DictFile(<<>>)
    /\ root' = OutDir
    /\ mpc' = "load"
    /\ UNCHANGED <<domain_pattern, function_pattern, pending, results, scanned, reports>>
    /\ UNCHANGED <<cvars, svars, nvars, ivars>>

\* rows of the pipeline: "1,a.b" | "1,https://c.d/x"
PipeRowSet ==
    { <<"1", <<97, 46, 98>> >>,
      <<"1", <<104, 116, 116, 112, 115, 58, 47, 47, 99, 46, 100, 47, 120>> >> }

PipeInit ==
    /\ rows \in UNION { [1..n -> PipeRowSet] : n \in 0..MaxPipeTargets }
    /\ idx = 0
    /\ url = ""
    /\ cpc = "loop"
    /\ dirs = {}
    /\ files = [k \in 1..MaxTargets |-> NoFiles]
    /\ live = {}
    /\ opened = {}
    /\ errlog = {}
    /\ crawled = <<>>
    /\ crun = 1
    /\ writes = [k \in 1..MaxTargets |-> NoWrites]
    /\ MineIdle
    /\ ScrollIdle
    /\ NameIdle
    /\ InstrumentIdle

\* ------------------------------------------------------------------------
\* site_crawler.py : INSTRUMENT_JS in the page, and the harvest of the browser
\* log and of window._jsCalls by crawl().  The page keeps running while the
\* driver harvests; the statements of the wrapper run without another page
\* script or execute_script between them, the driver's get_log does not run
\* in the page.
\* ------------------------------------------------------------------------

\* wrap(window, 'fetch'); wrap(XMLHttpRequest.prototype, 'open' / 'send')
EntryPoints == {"fetch", "open", "send"}

\* the calls a page may make: an entry point and its arguments
CallSet == [fn : EntryPoints, args : 1..2]

PageAlive == ipc \in {"page", "logged"}

\* the wrapper is entered: window._jsCalls.push({ fn: methodName, args })
Push ==
    /\ PageAlive
    /\ wpc = "idle"
    /\ Len(console) < MaxCalls
    /\ \E c \in CallSet :
         /\ call' = c
         /\ js_buffer' = Append(js_buffer, c)
    /\ wpc' = "pushed"
    /\ UNCHANGED <<ipc, console, invoked, console_logs, js_calls>>
    /\ UNCHANGED <<cvars, mvars, svars, nvars>>

\* console.log('JS_CALL', methodName, args)
Echo ==
    /\ wpc = "pushed"
    /\ console' = Append(console, call)
    /\ wpc' = "echoed"
    /\ UNCHANGED <<ipc, call, js_buffer, invoked, console_logs, js_calls>>
    /\ UNCHANGED <<cvars, mvars, svars, nvars>>

\* return orig.apply(this, args)
Forward ==
    /\ wpc = "echoed"
    /\ invoked' = Append(invoked, call)
    /\ wpc' = "idle"
    /\ UNCHANGED <<ipc, call, js_buffer, console, console_logs, js_calls>>
    /\ UNCHANGED <<cvars, mvars, svars, nvars>>

\* the page loads a new document: INSTRUMENT_JS is evaluated again and sets
\* window._jsCalls = []; the browser log is kept
NewDocument ==
    /\ PageAlive
    /\ wpc = "idle"
    /\ js_buffer # <<>>
    /\ js_buffer' = <<>>
    /\ UNCHANGED <<ipc, wpc, call, console, invoked, console_logs, js_calls>>
    /\ UNCHANGED <<cvars, mvars, svars, nvars>>

\* brow = driver.get_log("browser"); console_logs = [... for e in brow]
GetLog ==
    /\ ipc = "page"
    /\ console_logs' = console
    /\ ipc' = "logged"
    /\ UNCHANGED <<wpc, call, js_buffer, console, invoked, js_calls>>
    /\ UNCHANGED <<cvars, mvars, svars, nvars>>

\* js_calls = driver.execute_script("return window._jsCalls || []")
ReadJsCalls ==
    /\ ipc = "logged"
    /\ wpc = "idle"
    /\ js_calls' = js_buffer
    /\ ipc' = "harvested"
    /\ UNCHANGED <<wpc, call, js_buffer, console, invoked, console_logs>>
    /\ UNCHANGED <<cvars, mvars, svars, nvars>>

\* the page right after driver.get: both scripts were registered before it
InstrumentInit ==
    /\ ipc = "page"
    /\ wpc = "idle"
    /\ call = NoCall
    /\ js_buffer = <<>>
    /\ console = <<>>
    /\ invoked = <<>>
    /\ console_logs = <<>>
    /\ js_calls = <<>>
    /\ CrawlIdle
    /\ MineIdle
    /\ ScrollIdle
    /\ NameIdle

\* ------------------------------------------------------------------------
\* Specifications
\* ------------------------------------------------------------------------

CrawlNext ==
    \/ NextRow
    \/ ExceptClause
    \/ Mkdir
    \/ Provision
    \/ Instrument
    \/ Navigate
    \/ HumanScroll
    \/ Dwell
    \/ Harvest
    \/ Seal
    \/ Quit

\* the crawl orchestrator over an input list
CrawlSpec == CrawlInit /\ [][CrawlNext]_vars

MineNext ==
    \/ LoadAndCompile
    \/ SkipEntry
    \/ ScanSite
    \/ WriteReport
    \/ Rerun

\* the Log Miner over an artifact root
MineSpec == MineInit /\ [][MineNext]_vars

\* the Log Miner over one log line, for the claims about the matcher
MatchSpec == MatchInit /\ [][MineNext]_vars

\* ------------------------------------------------------------------------
\* Properties of the crawl orchestrator and session (CrawlSpec)
\* ------------------------------------------------------------------------

Crawled == SeqToSet(crawled)

\* the session of ordinal k is over: crawl() returned or raised
SessionOver(k) == k \in Crawled /\ (k < idx \/ cpc \in {"except", "loop", "done", "aborted"})

\* the orchestrator is done with ordinal k: the loop body for it has ended
Processed(k) == k \in Crawled /\ (k < idx \/ cpc \in {"loop", "done", "aborted"})

\* all four artifact files of ordinal k are written
Sealed(k) == \A f \in ArtifactNames : files[k][f] = "complete"

\* C1: an exception raised inside crawl(url, idx) is caught at that Target
\* and logged, and the loop goes on with the next row: the run ends early
\* only on a row without a URL column, never on a session failure, and a run
\* that reaches the end of the list has called crawl for every row.
C1_FailureContained ==
    /\ [](cpc = "aborted" => Len(rows[idx]) < 2)
    /\ [](cpc = "done" => Crawled = 1..Len(rows))
    /\ [][cpc = "except" => (cpc' = "loop" /\ idx' = idx /\ idx \in errlog')]_vars

\* C1 witness: a run is over in which a Target failed and a later Target was
\* crawled after it.
C1_Witness ==
    /\ cpc = "done"
    /\ \E k \in errlog : k < Len(rows) /\ k + 1 \in Crawled

\* C2: every session that opened a browser instance has released it by the
\* time the session is over, whether crawl() returned or raised.
C2_BrowserReleased == \A k \in opened : SessionOver(k) => k \notin live

\* C3: for a processed Target exactly one of "bundle sealed" and "failure
\* logged" holds.
C3_SealedXorLogged == \A k \in Crawled : Processed(k) => (Sealed(k) # (k \in errlog))

\* C4: once a session is over, its output directory holds all four artifact
\* files or does not exist; a directory with some or none of them is never
\* left, and a failed Target leaves no bundle.
C4_NoPartialBundle ==
    \A k \in Crawled : SessionOver(k) =>
        /\ (k \notin dirs \/ Sealed(k))
        /\ (k \in errlog => ~Sealed(k))

\* ------------------------------------------------------------------------
\* Properties of the Log Miner (MineSpec)
\* ------------------------------------------------------------------------

Ascending(list) == \A i \in 1..(Len(list) - 1) : StrLess(list[i], list[i + 1])

\* C5: a scanned site has an entry in the report exactly when one of its two
\* match sets is non-empty, and an entry carries both keys, each the list of
\* its match set (the empty list for an empty set).
C5_EmissionRule ==
    /\ DictKeys(results) \subseteq DOMAIN scanned
    /\ \A n \in DOMAIN scanned :
         /\ (n \in DictKeys(results)) <=> (scanned[n].d # {} \/ scanned[n].f # {})
         /\ n \in DictKeys(results) =>
              LET e == DictGet(results, n) IN
              /\ DOMAIN e = {"domains", "functions"}
              /\ SeqToSet(e["domains"]) = scanned[n].d
              /\ SeqToSet(e["functions"]) = scanned[n].f
              /\ (scanned[n].d = {} => e["domains"] = <<>>)
              /\ (scanned[n].f = {} => e["functions"] = <<>>)

\* C5 witness: the report is written with an entry whose domains list is
\* empty and whose functions list is not, while another scanned site with no
\* match has no entry.
C5_Witness ==
    /\ mpc = "done"
    /\ \E n \in DictKeys(results) :
         /\ DictGet(results, n)["domains"] = <<>>
         /\ DictGet(results, n)["functions"] # <<>>
    /\ \E n \in DOMAIN scanned : n \notin DictKeys(results)

\* C6: in every entry of the report the domains list and the functions list
\* are strictly ascending in the order on strings, hence duplicate-free.
C6_SortedUnique ==
    \A i \in 1..Len(results) :
        /\ Ascending(results[i].value["domains"])
        /\ Ascending(results[i].value["functions"])

\* C6 witness: the report is written with an entry whose domains list holds
\* two strings, collected from two log files.
C6_Witness ==
    /\ mpc = "done"
    /\ \E i \in 1..Len(results) : Len(results[i].value["domains"]) >= 2

\* C7: two runs on the same root and dictionaries write the same bytes.
C7_Idempotent ==
    \A i, j \in 1..Len(reports) : reports[i] = reports[j]

\* ------------------------------------------------------------------------
\* Properties of the matcher (MatchSpec: one site s1, one log file, one line)
\* ------------------------------------------------------------------------

MatchSite == <<115, 49>>

\* the one log line of the site
MatchLine ==
    LET site == CHOOSE e \in root : e.kind = "dir"
    IN (CHOOSE f \in site.entries : TRUE).lines[1]

\* the literal tokens of the domain dictionary: the lines that survive
\* load_list, before escaping
RECURSIVE DictTokens(_)
DictTokens(lines) ==
    IF lines = <<>> THEN {}
    ELSE LET line == Strip(Head(lines)) IN
         (IF line = <<>> \/ Head(line) = 35 THEN {} ELSE {line})
         \cup DictTokens(Tail(lines))

\* the positions at which t occurs in line, case ignored
Occurrences(t, line) ==
    {p \in 1..(Len(line) - Len(t) + 1) : Lower(SubSeq(line, p, p + Len(t) - 1)) = Lower(t)}

\* t occurs delimited on both sides by the line start/end or by whitespace
OccursDelimited(t, line) ==
    \E p \in Occurrences(t, line) :
        /\ (p = 1 \/ IsSpace(line[p - 1]))
        /\ (p + Len(t) > Len(line) \/ IsSpace(line[p + Len(t)]))

\* the characters of a host name or identifier
IsNameChar(c) == IsWordChar(c) \/ c \in {45, 46}

\* the host name or identifier around line[p..q]: the longest run of name
\* characters that holds it
NameStart(line, p) ==
    CHOOSE a \in 1..p : /\ \A i \in a..(p - 1) : IsNameChar(line[i])
                        /\ (a = 1 \/ ~IsNameChar(line[a - 1]))

NameEnd(line, q) ==
    CHOOSE b \in q..Len(line) : /\ \A i \in (q + 1)..b : IsNameChar(line[i])
                                /\ (b = Len(line) \/ ~IsNameChar(line[b + 1]))

\* t occurs in line, and only inside longer host names or identifiers: around
\* every occurrence the name is longer than t and begins and ends with a
\* letter or digit (sub.<t>, <t>.other.org, <t>xyz)
OnlySubFragment(t, line) ==
    /\ Occurrences(t, line) # {}
    /\ \A c \in SeqToSet(t) : IsNameChar(c)
    /\ \A p \in Occurrences(t, line) :
         LET a == NameStart(line, p)
             b == NameEnd(line, p + Len(t) - 1)
         IN /\ b - a + 1 > Len(t)
            /\ IsWordChar(line[a])
            /\ IsWordChar(line[b])

\* the site's domain match set holds t in some casing
Reported(t) == \E m \in scanned[MatchSite].d : Lower(m) = Lower(t)

\* a dictionary holding t alone matches t on the line
MatchedAlone(t, line) ==
    FindIter(compile_pattern(<<Escape(t)>>), line, 1) # <<>>

\* C8: a dictionary token that occurs on the line delimited by whitespace or
\* the line's ends is matched, whatever characters it begins and ends with.
C8_DelimitedTokenMatches ==
    MatchSite \in DOMAIN scanned =>
        \A t \in DictTokens(domains_txt.lines) :
            OccursDelimited(t, MatchLine) => Reported(t)

\* C9: a dictionary token that occurs on the line only as a fragment of a
\* longer host name or identifier is not matched.
C9_NoSubFragmentMatch ==
    MatchSite \in DOMAIN scanned =>
        \A t \in DictTokens(domains_txt.lines) :
            OnlySubFragment(t, MatchLine) => ~Reported(t)

\* C10: a token that occurs on the line as a whole token, and that a
\* dictionary of its own would match there, is in the match set whatever the
\* other entries of the dictionary are and wherever they stand.
C10_IndependentOfOtherEntries ==
    MatchSite \in DOMAIN scanned =>
        \A t \in DictTokens(domains_txt.lines) :
            (OccursDelimited(t, MatchLine) /\ MatchedAlone(t, MatchLine)) => Reported(t)

\* ------------------------------------------------------------------------
\* Properties of the Log Miner, continued (MineSpec)
\* ------------------------------------------------------------------------

\* both dictionary files can be read and neither holds an entry
BothDictionariesEmpty ==
    /\ Loads(domains_txt)
    /\ Loads(functions_txt)
    /\ DictTokens(domains_txt.lines) = {}
    /\ DictTokens(functions_txt.lines) = {}

\* C11: with two dictionaries that hold no entry, main neither crashes nor
\* returns early, both matchers are None while the sites are scanned, no site
\* gets an entry, and the report written is the empty mapping "{}".
C11_EmptyDictionaries ==
    BothDictionariesEmpty =>
        /\ mpc \notin {"crashed", "returned"}
        /\ (mpc # "load" => domain_pattern.none /\ function_pattern.none)
        /\ results = <<>>
        /\ \A i \in 1..Len(reports) : reports[i] = <<123, 125>>

\* C11 witness: a run with two empty dictionaries has scanned a site that
\* holds a log file and has written "{}".
C11_Witness ==
    /\ BothDictionariesEmpty
    /\ mpc = "done"
    /\ reports # <<>>
    /\ \E e \in root : e.kind = "dir" /\ find_log_files(e) # {} /\ e.name \in DOMAIN scanned

\* the site directories of the artifact root
Sites == {e \in root : e.kind = "dir"}

\* a log file whose open() or whose reading raises
Unreadable(file) == ~file.opens \/ file.good < Len(file.lines)

\* how many times x occurs in the sequence s
Count(s, x) == Cardinality({i \in 1..Len(s) : s[i] = x})

\* the matches of the lines of one file under the compiled matchers
FileMatches(file) == ScanLines(file.lines, domain_pattern, function_pattern, NoMatches)

\* C12: a log file that cannot be opened or read gets exactly one warning and
\* a readable one gets none; main crashes only on a dictionary file that is
\* missing or not UTF-8, a finished run has scanned every site, and every
\* match of every readable log file of a scanned site is in that site's sets
\* and in its report entry.
C12_UnreadableFileSkipped ==
    /\ (mpc = "crashed" => ~Loads(domains_txt) \/ ~Loads(functions_txt))
    /\ (mpc = "done" => \A s \in Sites : s.name \in DOMAIN scanned)
    /\ \A s \in Sites : s.name \in DOMAIN scanned =>
         \A file \in find_log_files(s) :
            /\ Count(scanned[s.name].w, file.name) = IF Unreadable(file) THEN 1 ELSE 0
            /\ ~Unreadable(file) =>
                 /\ FileMatches(file).d \subseteq scanned[s.name].d
                 /\ FileMatches(file).f \subseteq scanned[s.name].f
                 /\ FileMatches(file).d # {} =>
                      /\ s.name \in DictKeys(results)
                      /\ FileMatches(file).d \subseteq
                            SeqToSet(DictGet(results, s.name)["domains"])
                 /\ FileMatches(file).f # {} =>
                      /\ s.name \in DictKeys(results)
                      /\ FileMatches(file).f \subseteq
                            SeqToSet(DictGet(results, s.name)["functions"])

\* C12 witness: a finished run in which one site held a log file that cannot
\* be opened beside a readable one with a match, and another site held a log
\* file that fails part-way beside a readable one with a match.
C12_Witness ==
    /\ mpc = "done"
    /\ reports # <<>>
    /\ \E s, t \in Sites :
         /\ s # t
         /\ \E file \in find_log_files(s) : ~file.opens
         /\ \E file \in find_log_files(s) :
               ~Unreadable(file) /\ FileMatches(file).d # {}
         /\ Len(scanned[s.name].w) = 1
         /\ \E file \in find_log_files(t) : file.opens /\ Unreadable(file)
         /\ \E file \in find_log_files(t) :
               ~Unreadable(file) /\ FileMatches(file).d # {}
         /\ Len(scanned[t.name].w) = 1

ScrollNext ==
    \/ ForRange
    \/ ScrollBy
    \/ Measure
    \/ StopTest

\* one call of human_scroll; every statement of it, once reached, is run
ScrollSpec == ScrollInit /\ [][ScrollNext]_vars /\ WF_vars(ScrollNext)

\* ------------------------------------------------------------------------
\* Properties of human_scroll (ScrollSpec)
\* ------------------------------------------------------------------------

ScrollOver == spc \in {"returned", "raised"}

\* C13: human_scroll terminates; the page is scrolled at most max_scrolls
\* times whatever it measures; the iteration that measures
\* position >= total_height is the last one: the function returns from it
\* without another scroll, and nothing happens after it has returned.
C13_ScrollTerminates ==
    /\ <>ScrollOver
    /\ [](scrolled <= max_scrolls)
    /\ [][spc = "test" /\ position >= total_height
            => spc' = "returned" /\ scrolled' = scrolled]_vars
    /\ [][ScrollOver => scrolled' = scrolled /\ spc' = spc]_vars

\* C13 witness: with the cap of 100 the seventh iteration measured
\* position >= total_height and human_scroll returned after 7 scrolls.
C13_Witness ==
    /\ spc = "returned"
    /\ max_scrolls = MAX_SCROLLS
    /\ scrolled = 7
    /\ scroll_i = 6
    /\ position >= total_height

\* ------------------------------------------------------------------------
\* Properties of the crawl orchestrator, continued (CrawlSpec)
\* ------------------------------------------------------------------------

\* the run of the orchestrator is over
RunOver == cpc \in {"done", "aborted"}

\* C14: sessions are started in input order with the ordinals 1, 2, ..., each
\* once, and when the run is over every row of the input had its session.
C14_OncePerTarget ==
    /\ \A i \in 1..Len(crawled) : crawled[i] = i
    /\ Len(crawled) <= Len(rows)
    /\ (RunOver => Len(crawled) = Len(rows))

\* C15: at most one browser instance is live.
C15_OneBrowserLive == Cardinality(live) <= 1

\* ------------------------------------------------------------------------
\* Repeated runs of the orchestrator over the same input (RecrawlSpec)
\* ------------------------------------------------------------------------

RecrawlNext ==
    \/ CrawlNext
    \/ CrawlRerun

RecrawlSpec == RecrawlInit /\ [][RecrawlNext]_vars

\* C16: no artifact file is written more than once, whatever sessions and
\* orchestrator runs follow the one that wrote it.
C16_WriteOnce ==
    \A k \in 1..MaxTargets : \A f \in ArtifactNames : writes[k][f] <= 1

NameNext ==
    \/ Normalize
    \/ MakeSafe
    \/ MakeOut

\* the naming of the output directories of two targets of one run
NameSpec == NameInit /\ [][NameNext]_vars

\* ------------------------------------------------------------------------
\* Properties of the directory naming and of normalize_url (NameSpec)
\* ------------------------------------------------------------------------

IsDigit(c) == c \in 48..57

\* the number a string of decimal digits denotes
RECURSIVE DigitsValue(_)
DigitsValue(s) ==
    IF s = <<>> THEN 0
    ELSE 10 * DigitsValue(SubSeq(s, 1, Len(s) - 1)) + (s[Len(s)] - 48)

\* the position of the first '_' of a directory name
FirstUnderscore(name) ==
    CHOOSE p \in 1..Len(name) : name[p] = 95 /\ \A q \in 1..(p - 1) : name[q] # 95

\* the part of a directory name after the index and its '_'
NameSuffix(name) == SubSeq(name, FirstUnderscore(name) + 1, Len(name))

\* name is <n in decimal, zero-padded to at least four digits>_<text without '/'>
HasNameForm(name, n) ==
    /\ \E p \in 1..Len(name) : name[p] = 95
    /\ LET p == FirstUnderscore(name)
           digits == SubSeq(name, 1, p - 1)
       IN /\ Len(digits) >= 4
          /\ \A q \in 1..Len(digits) : IsDigit(digits[q])
          /\ DigitsValue(digits) = n
          /\ (Len(digits) > 4 => digits[1] # 48)
          /\ \A q \in (p + 1)..Len(name) : name[q] # 47

\* C17: the directory names computed for two targets of a run differ, and
\* each has the form <index zero-padded to at least 4 digits>_<safe string>.
C17_DistinctDirectories ==
    /\ \A i, j \in 1..Len(out) : i # j => out[i] # out[j]
    /\ \A i \in 1..Len(out) : HasNameForm(out[i], targets[i].idx)

\* C17 witness: two different URLs encoded to the same safe string, the
\* second target has an index above 9999, and both names were computed.
C17_Witness ==
    /\ npc = "end"
    /\ Len(out) = 2
    /\ targets[1].u # targets[2].u
    /\ NameSuffix(out[1]) = NameSuffix(out[2])
    /\ targets[2].idx > 9999

\* u begins with a scheme name (a letter, then letters, digits, '+', '-',
\* '.') followed by "://"
CarriesScheme(u) ==
    \E n \in 1..Len(u) :
        /\ u[1] \in (65..90) \cup (97..122)
        /\ \A q \in 1..n : u[q] \in (65..90) \cup (97..122) \cup (48..57) \cup {43, 45, 46}
        /\ Len(u) >= n + 3
        /\ SubSeq(u, n + 1, n + 3) = <<58, 47, 47>>

\* C18: normalize_url prefixes "https://" to an input without a scheme and
\* returns an input with a scheme unchanged; its result carries a scheme and
\* normalizing the result again changes nothing.
C18_NormalizeUrl ==
    npc = "safe" =>
        LET u == targets[tk].u IN
        /\ (~CarriesScheme(u) => nurl = Https \o u)
        /\ (CarriesScheme(u) => nurl = u)
        /\ CarriesScheme(nurl)
        /\ normalize_url(nurl) = nurl

\* ------------------------------------------------------------------------
\* Properties of the dictionaries of the Log Miner (MineSpec)
\* ------------------------------------------------------------------------

\* the literal tokens a compiled matcher looks for
MatcherTokens(pattern) == IF pattern.none THEN {} ELSE SeqToSet(pattern.alts)

\* C19: no dictionary entry is dropped on the way into the matcher: main either
\* ends before any site is scanned and without a report, or scans with
\* matchers that hold every entry of their dictionary, as the literal text
\* of the entry.
C19_NoEntryDropped ==
    /\ (mpc \in {"crashed", "returned"} =>
           scanned = << >> /\ results = <<>> /\ reports = <<>>)
    /\ (mpc \in {"sites", "done"} =>
           /\ MatcherTokens(domain_pattern) = DictTokens(domains_txt.lines)
           /\ MatcherTokens(function_pattern) = DictTokens(functions_txt.lines))

\* C19 witness: a dictionary that cannot be turned into a matcher (its bytes
\* are not UTF-8) ended main while the root held a site with log files.
C19_Witness ==
    /\ mpc = "crashed"
    /\ domains_txt.exists
    /\ ~domains_txt.decodable
    /\ Loads(functions_txt)
    /\ DictTokens(functions_txt.lines) # {}
    /\ \E s \in Sites : find_log_files(s) # {}
    /\ reports = <<>>

\* the dictionary file is missing or holds no entry
NoEntries(dict_file) ==
    ~dict_file.exists \/ (Loads(dict_file) /\ DictTokens(dict_file.lines) = {})

HasEntries(dict_file) == Loads(dict_file) /\ DictTokens(dict_file.lines) # {}

\* C20: with one dictionary missing or without entries and the other with
\* entries, main neither crashes nor returns early, scans with the other
\* matcher alone, leaves the set of the absent dictionary empty for every
\* site, and writes the report.
C20_OneDictionaryEnough ==
    /\ (NoEntries(domains_txt) /\ HasEntries(functions_txt) =>
           /\ mpc \notin {"crashed", "returned"}
           /\ (mpc \in {"sites", "done"} => domain_pattern.none /\ ~function_pattern.none)
           /\ \A n \in DOMAIN scanned : scanned[n].d = {}
           /\ (mpc = "done" => reports # <<>>))
    /\ (NoEntries(functions_txt) /\ HasEntries(domains_txt) =>
           /\ mpc \notin {"crashed", "returned"}
           /\ (mpc \in {"sites", "done"} => function_pattern.none /\ ~domain_pattern.none)
           /\ \A n \in DOMAIN scanned : scanned[n].f = {}
           /\ (mpc = "done" => reports # <<>>))

\* ------------------------------------------------------------------------
\* The pipeline (PipeSpec): OUT_DIR holds directories only, so the miner
\* never meets an entry to skip
\* ------------------------------------------------------------------------

PipeNext ==
    \/ CrawlNext
    \/ MineOutDir
    \/ LoadAndCompile
    \/ ScanSite
    \/ WriteReport
    \/ Rerun

PipeSpec == PipeInit /\ [][PipeNext]_vars

\* C21: when the miner has finished on the crawl output, every sealed bundle
\* whose requests name a URL holding the dictionary domain has a report entry
\* that lists the domain.
C21_EndToEnd ==
    mpc = "done" =>
        \A k \in dirs :
            Sealed(k) /\ Occurrences(PipeDomain, normalize_url(rows[k][2])) # {} =>
                /\ BundleDir(k).name \in DOMAIN scanned
                /\ BundleDir(k).name \in DictKeys(results)
                /\ \E m \in SeqToSet(DictGet(results, BundleDir(k).name)["domains"]) :
                       Lower(m) = PipeDomain

\* ------------------------------------------------------------------------
\* Properties of the scan of a site (MineSpec)
\* ------------------------------------------------------------------------

\* the lines of a file that a scan gets to read
ReadLines(file) == IF file.opens THEN SubSeq(file.lines, 1, file.good) ELSE <<>>

\* what the lines read from one file match under the compiled matchers
ReadMatches(file) == ScanLines(ReadLines(file), domain_pattern, function_pattern, NoMatches)

\* the regular files directly inside site whose name ends, case ignored,
\* with ".log"
DirectLogFiles(site) ==
    {e \in site.entries :
        /\ e.kind = "file"
        /\ Len(e.name) >= 4
        /\ Lower(SubSeq(e.name, Len(e.name) - 3, Len(e.name))) = <<46, 108, 111, 103>>}

\* C22: the match sets of a scanned site are exactly what the lines read from
\* the log files directly inside it match, and only those files are opened:
\* a nested directory, a file of the root and a file with another extension
\* contribute nothing.
C22_DirectLogFilesOnly ==
    \A s \in Sites : s.name \in DOMAIN scanned =>
        /\ scanned[s.name].d = UNION {ReadMatches(file).d : file \in DirectLogFiles(s)}
        /\ scanned[s.name].f = UNION {ReadMatches(file).f : file \in DirectLogFiles(s)}
        /\ SeqToSet(scanned[s.name].w) \subseteq {file.name : file \in DirectLogFiles(s)}

\* C22 witness: the run is over; one site held only a file with another
\* extension and a nested directory, both with text that matches, and has no
\* entry; the root held a log file with such text, and another site has an
\* entry.
C22_Witness ==
    /\ mpc = "done"
    /\ \E e \in root : e.kind = "file" /\ ReadMatches(e).d # {}
    /\ \E s, t \in Sites :
         /\ \E e \in s.entries : e.kind = "file" /\ ReadMatches(e).d # {}
         /\ \E e \in s.entries :
               e.kind = "dir" /\ \E z \in e.entries : ReadMatches(z).d # {}
         /\ DirectLogFiles(s) = {}
         /\ s.name \notin DictKeys(results)
         /\ t.name \in DictKeys(results)

\* what the log files of a site, read on their own, match
OwnDomains(site) == UNION {ReadMatches(file).d : file \in DirectLogFiles(site)}

OwnFunctions(site) == UNION {ReadMatches(file).f : file \in DirectLogFiles(site)}

\* the entries of a site in results: one or none
EntryOf(dict, name) == {dict[i].value : i \in {j \in 1..Len(dict) : dict[j].key = name}}

\* C23: the entry of a scanned site is determined by the site's own log files
\* and the two dictionaries, whatever was scanned before it, and scanning
\* another site leaves the sets and the entry of a scanned site as they are.
C23_SitesIndependent ==
    /\ [](\A s \in Sites : s.name \in DOMAIN scanned =>
            EntryOf(results, s.name) =
                IF OwnDomains(s) # {} \/ OwnFunctions(s) # {}
                THEN {ReportEntry(OwnDomains(s), OwnFunctions(s))}
                ELSE {})
    /\ [][mpc' = "sites" =>
            \A n \in DOMAIN scanned :
                /\ n \in DOMAIN scanned'
                /\ scanned'[n] = scanned[n]
                /\ EntryOf(results', n) = EntryOf(results, n)]_vars

\* C23 witness: two sites were scanned, each has an entry, and each entry
\* lists a domain string that the other does not.
C23_Witness ==
    /\ mpc = "done"
    /\ \E s, t \in Sites :
         /\ s.name \in DictKeys(results)
         /\ t.name \in DictKeys(results)
         /\ \E m \in SeqToSet(DictGet(results, s.name)["domains"]) :
               m \notin SeqToSet(DictGet(results, t.name)["domains"])
         /\ \E m \in SeqToSet(DictGet(results, t.name)["domains"]) :
               m \notin SeqToSet(DictGet(results, s.name)["domains"])

\* ------------------------------------------------------------------------
\* The order of the phases of a session (CrawlSpec)
\* ------------------------------------------------------------------------

\* the statements of crawl() in the order of the phases: prepare the
\* directory, provision, instrument, navigate, simulate engagement, dwell,
\* harvest, seal (four files), release
Phases == <<"mkdir", "provision", "instrument", "navigate", "scroll", "dwell",
            "harvest", "write1", "write2", "write3", "write4", "quit">>

PhaseIndex(p) == CHOOSE i \in 1..Len(Phases) : Phases[i] = p

InSession == \E i \in 1..Len(Phases) : Phases[i] = cpc

\* the session has not harvested yet
BeforeSeal == InSession /\ PhaseIndex(cpc) <= PhaseIndex("harvest")

\* C24: a session moves from each phase to the next one of the fixed order,
\* or leaves by an exception; it ends normally only from the release; no
\* artifact file of the session exists before the harvest is done, files are
\* written only in the seal phase, the browser is opened after the directory
\* is made and before the scripts are registered, and it is released only
\* when all four files are written.
C24_PhaseOrder ==
    /\ [][InSession /\ cpc' # cpc =>
            \/ cpc' = "except"
            \/ cpc # "quit" /\ cpc' = Phases[PhaseIndex(cpc) + 1]
            \/ cpc = "quit" /\ cpc' = "loop"]_vars
    /\ [](BeforeSeal => files[idx] = NoFiles)
    /\ [][files' # files => cpc \in {"write1", "write2", "write3", "write4"}]_vars
    /\ [](InSession => (idx \in opened <=> PhaseIndex(cpc) > PhaseIndex("provision")))
    /\ [][(idx \in live /\ ~(idx \in live')) => (cpc = "quit" /\ Sealed(idx))]_vars

\* C24 witness: a session went through all phases: its bundle is sealed, its
\* browser was opened and is released, and the loop is back at the next row.
C24_Witness ==
    /\ cpc = "loop"
    /\ idx >= 1
    /\ idx \in opened
    /\ idx \notin live
    /\ idx \notin errlog
    /\ Sealed(idx)

InstrumentNext ==
    \/ Push
    \/ Echo
    \/ Forward
    \/ NewDocument
    \/ GetLog
    \/ ReadJsCalls

\* one page under INSTRUMENT_JS and its harvest
InstrumentSpec == InstrumentInit /\ [][InstrumentNext]_vars

\* ------------------------------------------------------------------------
\* Properties of the instrumentation (InstrumentSpec)
\* ------------------------------------------------------------------------

\* s is the beginning of t
IsPrefix(s, t) == Len(s) <= Len(t) /\ SubSeq(t, 1, Len(s)) = s

\* C25: a call reaches the original function only after it was echoed to the
\* console, with the same name and arguments, and it is echoed only after it
\* was pushed to the buffer; and when the harvest is done, every call the
\* page made up to then is in console_logs, so every call of js_calls has its
\* JS_CALL entry in console_logs.
C25_RecordedBeforeInvoked ==
    /\ IsPrefix(invoked, console)
    /\ (wpc # "idle" => js_buffer # <<>> /\ js_buffer[Len(js_buffer)] = call)
    /\ (wpc = "echoed" => console # <<>> /\ console[Len(console)] = call)
    /\ (ipc = "harvested" =>
           /\ console_logs = console
           /\ \A c \in CallSet : Count(js_calls, c) <= Count(console_logs, c))

\* ------------------------------------------------------------------------
\* The spelling of the reported strings (MineSpec)
\* ------------------------------------------------------------------------

\* m occurs in line, character for character
OccursVerbatim(m, line) ==
    \E p \in 1..(Len(line) - Len(m) + 1) : SubSeq(line, p, p + Len(m) - 1) = m

\* the lines a scan of the site gets to read
SiteLines(site) ==
    UNION { {ReadLines(file)[i] : i \in 1..Len(ReadLines(file))} :
              file \in DirectLogFiles(site) }

\* a line without its newline
LineText(line) ==
    IF line # <<>> /\ line[Len(line)] = 10 THEN SubSeq(line, 1, Len(line) - 1) ELSE line

\* t begins and ends with a word character and no other token of the
\* dictionary is, case ignored, a beginning of t
PlainToken(t, tokens) ==
    /\ IsWordChar(t[1])
    /\ IsWordChar(t[Len(t)])
    /\ \A u \in tokens \ {t} : ~StartsWith(Lower(t), Lower(u))

\* the strings of a list are in the spelling of the site's log lines and are
\* dictionary tokens when case is ignored; a line that is such a token, in
\* whatever casing, puts its own text in the list
LogSpelling(list, site, tokens) ==
    /\ \A m \in SeqToSet(list) :
         /\ \E line \in SiteLines(site) : OccursVerbatim(m, line)
         /\ \E t \in tokens : Lower(t) = Lower(m)
    /\ \A line \in SiteLines(site) : \A t \in tokens :
         PlainToken(t, tokens) /\ Lower(LineText(line)) = Lower(t) =>
             LineText(line) \in SeqToSet(list)

\* C26: every string of an emitted list is text of a log line of the site
\* and a dictionary entry when case is ignored, and the casings seen in the
\* log are all kept.
C26_LogSpelling ==
    \A s \in Sites : s.name \in DictKeys(results) =>
        /\ LogSpelling(DictGet(results, s.name)["domains"], s,
                       DictTokens(domains_txt.lines))
        /\ LogSpelling(DictGet(results, s.name)["functions"], s,
                       DictTokens(functions_txt.lines))

\* C26 witness: the report is written and the domains list of a site holds
\* one dictionary token in two casings, one of them not the dictionary's.
C26_Witness ==
    /\ mpc = "done"
    /\ \E s \in Sites :
         /\ s.name \in DictKeys(results)
         /\ \E m1, m2 \in SeqToSet(DictGet(results, s.name)["domains"]) :
               /\ m1 # m2
               /\ Lower(m1) = Lower(m2)
               /\ m1 \notin DictTokens(domains_txt.lines)

\* ------------------------------------------------------------------------
\* A log file whose reading fails part-way (MineSpec)
\* ------------------------------------------------------------------------

\* reading the file raises after at least one line and before the last
FailsPartWay(file) == file.opens /\ 0 < file.good /\ file.good < Len(file.lines)

\* C27: what the lines read before the failure of a log file match stays in
\* the sets of the site and is in its report entry, the file has its
\* warning, and what the other log files of the site match is there too.
C27_PartialReadKept ==
    \A s \in Sites : s.name \in DOMAIN scanned =>
        \A file \in DirectLogFiles(s) : FailsPartWay(file) =>
            /\ ReadMatches(file).d \subseteq scanned[s.name].d
            /\ ReadMatches(file).f \subseteq scanned[s.name].f
            /\ Count(scanned[s.name].w, file.name) = 1
            /\ (ReadMatches(file).d # {} \/ ReadMatches(file).f # {} =>
                  /\ s.name \in DictKeys(results)
                  /\ ReadMatches(file).d \subseteq
                        SeqToSet(DictGet(results, s.name)["domains"])
                  /\ ReadMatches(file).f \subseteq
                        SeqToSet(DictGet(results, s.name)["functions"]))
            /\ \A other \in DirectLogFiles(s) \ {file} :
                  /\ ReadMatches(other).d \subseteq scanned[s.name].d
                  /\ ReadMatches(other).f \subseteq scanned[s.name].f

\* C27 witness: the report is written; in one site a log file failed after a
\* line that matched, a line of it that was never read would have matched
\* something the site does not list, and another log file of the site
\* contributed a match of its own.
C27_Witness ==
    /\ mpc = "done"
    /\ reports # <<>>
    /\ \E s \in Sites : \E file, other \in DirectLogFiles(s) :
         /\ file # other
         /\ FailsPartWay(file)
         /\ ReadMatches(file).d # {}
         /\ ~(FileMatches(file).f \subseteq scanned[s.name].f)
         /\ ReadMatches(other).d # {}
         /\ ~(ReadMatches(other).d \subseteq ReadMatches(file).d)
         /\ s.name \in DictKeys(results)

====
